---- MODULE Spec2Model ----
(***************************************************************************)
(* Model of deleted_libraries.py: the scan of /proc/<pid>/maps for shared *)
(* libraries that are mapped but deleted, the per-library process count,   *)
(* and the rendering of the count as a Prometheus gauge.                   *)
(*                                                                         *)
(* Text is modelled as sequences of one-character strings, so that         *)
(* substring tests, str.split() and os.path.split() are computed and not   *)
(* assumed.  A Python dict is a record [tag, keys, val]: keys is the       *)
(* insertion order (the order of iteration), val the mapping.              *)
(***************************************************************************)
EXTENDS Integers, Sequences, FiniteSets, TLC

\* Number of paths glob.glob("/proc/*/maps") returns in the run.
NumProcs == 2
\* Largest number of lines a mapping source yields before end of file.
MaxLines == 2
\* Number of process entries of the aggregates given to count_processes_per_library alone.
DeriveProcs == 3

VARIABLES
    pc,                                   \* position of main()
    idx,                                  \* index of the current path of the glob loop
    nread,                                \* lines read from the open source
    openFiles,                            \* paths whose file object is open
    processes_linking_deleted_libraries,  \* the per-process aggregate
    num_processes_per_library,            \* the per-library aggregate
    stdout,                               \* <<>>, or <<the samples printed>>
    stderr,                               \* <<>>, or what was written to it
    exit_status,                          \* -1 while running, then the exit status
    ev,                                   \* the last step taken
    nfields,                              \* number of fields of the last line split
    outcome,                              \* how the scan of each path ended
    out2                                  \* result of a second derivation (SpecDerive)

vars == <<pc, idx, nread, openFiles, processes_linking_deleted_libraries,
          num_processes_per_library, stdout, stderr, exit_status, ev,
          nfields, outcome, out2>>

----------------------------------------------------------------------------
(* Text *)

Slash == "/"
Whitespace == {" ", "\t", "\n"}
\* A byte that is not valid UTF-8: bytes.decode() raises UnicodeDecodeError on it.
BadByte == "\\xff"

\* Python's  sub in s
Contains(sub, s) ==
    \E i \in 0..(Len(s) - Len(sub)) : SubSeq(s, i + 1, i + Len(sub)) = sub

\* bytes.decode(): defined only when every byte decodes.
Decodable(line) == \A i \in 1..Len(line) : line[i] # BadByte

RECURSIVE SplitFrom(_, _, _, _)
\* str.split() with no separator: runs of whitespace separate the fields and
\* leading or trailing whitespace yields no empty field (so strip() before it
\* changes nothing).  i is the position, field the field being collected.
SplitFrom(s, i, field, acc) ==
    IF i > Len(s)
    THEN IF field = <<>> THEN acc ELSE Append(acc, field)
    ELSE IF s[i] \in Whitespace
         THEN SplitFrom(s, i + 1, <<>>, IF field = <<>> THEN acc ELSE Append(acc, field))
         ELSE SplitFrom(s, i + 1, Append(field, s[i]), acc)

\* line.decode().strip().split()
Split(line) == SplitFrom(line, 1, <<>>, <<>>)

RECURSIVE RFind(_, _)
\* str.rfind("/") + 1 restricted to the first n characters: the 1-based
\* position of the last separator, 0 when there is none.
RFind(s, n) ==
    IF n = 0 THEN 0
    ELSE IF s[n] = Slash THEN n ELSE RFind(s, n - 1)

RECURSIVE RStrip(_)
\* str.rstrip("/")
RStrip(s) ==
    IF s # <<>> /\ s[Len(s)] = Slash THEN RStrip(SubSeq(s, 1, Len(s) - 1)) ELSE s

AllSlashes(s) == \A i \in 1..Len(s) : s[i] = Slash

\* posixpath.split: <<head, tail>>
OsPathSplit(p) ==
    LET i == RFind(p, Len(p))
        head == SubSeq(p, 1, i)
        tail == SubSeq(p, i + 1, Len(p))
    IN  <<IF head # <<>> /\ ~AllSlashes(head) THEN RStrip(head) ELSE head, tail>>

LibMarker == <<"/", "l", "i", "b", "/">>
DeletedMarker == <<"(", "d", "e", "l", "e", "t", "e", "d", ")">>

----------------------------------------------------------------------------
(* Dictionaries *)

EmptyDict == [tag |-> "dict", keys |-> <<>>, val |-> <<>>]

IsDict(v) == v.tag = "dict"

Keys(d) == {d.keys[i] : i \in 1..Len(d.keys)}

\* d[k] = v, appending k to the order of iteration when it is new
Put(d, k, v) ==
    [tag  |-> "dict",
     keys |-> IF k \in Keys(d) THEN d.keys ELSE Append(d.keys, k),
     val  |-> [x \in Keys(d) \cup {k} |-> IF x = k THEN v ELSE d.val[x]]]

\* d.setdefault(k, 0)
SetDefault0(d, k) == IF k \in Keys(d) THEN d ELSE Put(d, k, 0)

\* d[k] += 1
Incr(d, k) == Put(d, k, d.val[k] + 1)

----------------------------------------------------------------------------
(* Inputs *)

\* The first five fields of a mapping line (address range, permissions,
\* offset, device, inode), one character each, each followed by a blank.
Prefix == <<"a", " ", "p", " ", "o", " ", "d", " ", "i", " ">>

LibA   == <<"/", "l", "i", "b", "/", "a">>
LibSlA == <<"/", "l", "i", "b", "/", "/", "a">>
LibB   == <<"/", "l", "i", "b", "/", "b">>
BinA   == <<"/", "b", "i", "n", "/", "a">>
NotDeleted == <<"(", "x", ")">>
Nl == <<"\n">>
Sp == <<" ">>

\* The lines a mapping source can yield.  The path and annotation columns are
\* arbitrary text: the kernel prints the names of memfd files and of named
\* anonymous mappings as the process chose them.
RawLines == <<
    Prefix \o LibA \o Sp \o DeletedMarker \o Nl,          \* deleted library
    Prefix \o LibSlA \o <<"\t">> \o DeletedMarker \o Nl,  \* deleted, doubled separator, tab
    Prefix \o LibA \o Nl,                                 \* 6 fields: mapped, not deleted
    Prefix \o LibB \o Sp \o NotDeleted \o Nl,             \* 7 fields, other annotation
    Prefix \o BinA \o Sp \o DeletedMarker \o Nl,          \* 7 fields, not a library
    Nl,                                                   \* empty line
    Prefix \o LibA \o Sp \o DeletedMarker \o Sp \o <<"b">> \o Nl,  \* 8 fields
    Prefix \o <<BadByte>> \o Sp \o DeletedMarker \o Nl    \* undecodable
>>

LineIds == 1..Len(RawLines)

\* glob.glob("/proc/*/maps"): path i stands for the i-th path returned.
Paths == 1..NumProcs

ENOENT == "ENOENT"
Errnos == {ENOENT, "EACCES", "ESRCH"}

----------------------------------------------------------------------------
(* Functions of the program *)

\* line 27 with "or" for "and"
process_maps_entry_or(path, line_parts, d) ==
    IF Len(line_parts) # 7 THEN d
    ELSE LET library == line_parts[6]
             comment == line_parts[7]
         IN  IF Contains(LibMarker, library) \/ Contains(DeletedMarker, comment)
             THEN LET d1 == IF path \in Keys(d) THEN d ELSE Put(d, path, EmptyDict)
                  IN  Put(d1, path, Incr(SetDefault0(d1.val[path], library), library))
             ELSE d

\* line 22 with "<" for "!="
process_maps_entry_atleast7(path, line_parts, d) ==
    IF Len(line_parts) < 7 THEN d
    ELSE LET library == line_parts[6]
             comment == line_parts[7]
         IN  IF Contains(LibMarker, library) /\ Contains(DeletedMarker, comment)
             THEN LET d1 == IF path \in Keys(d) THEN d ELSE Put(d, path, EmptyDict)
                  IN  Put(d1, path, Incr(SetDefault0(d1.val[path], library), library))
             ELSE d

\* line 27 without the test of the comment
process_maps_entry_anylib(path, line_parts, d) ==
    IF Len(line_parts) # 7 THEN d
    ELSE LET library == line_parts[6]
         IN  IF Contains(LibMarker, library)
             THEN LET d1 == IF path \in Keys(d) THEN d ELSE Put(d, path, EmptyDict)
                  IN  Put(d1, path, Incr(SetDefault0(d1.val[path], library), library))
             ELSE d

process_maps_entry(path, line_parts, d) ==
    IF Len(line_parts) # 7 THEN d
    ELSE LET library == line_parts[6]
             comment == line_parts[7]
         IN  IF Contains(LibMarker, library) /\ Contains(DeletedMarker, comment)
             THEN LET d1 == IF path \in Keys(d) THEN d ELSE Put(d, path, EmptyDict)
                  IN  Put(d1, path, Incr(SetDefault0(d1.val[path], library), library))
             ELSE d

RECURSIVE CountLibrariesSum(_, _, _)
\* line 46 adding the count of the library inside the entry
CountLibrariesSum(acc, library_count, j) ==
    IF j > Len(library_count.keys) THEN acc
    ELSE LET library == library_count.keys[j]
             a == SetDefault0(acc, library)
         IN  CountLibrariesSum(Put(a, library, a.val[library] + library_count.val[library]),
                               library_count, j + 1)

RECURSIVE CountLibraries(_, _, _)
\* lines 44-46: the loop over the libraries of one entry, from position j
CountLibraries(acc, library_count, j) ==
    IF j > Len(library_count.keys) THEN acc
    ELSE LET library == library_count.keys[j]
         IN  CountLibraries(Incr(SetDefault0(acc, library), library), library_count, j + 1)

RECURSIVE CountEntriesBreak(_, _, _)
\* line 42 with "break" for "continue"
CountEntriesBreak(acc, d, i) ==
    IF i > Len(d.keys) THEN acc
    ELSE LET library_count == d.val[d.keys[i]]
         IN  IF ~IsDict(library_count)
             THEN acc
             ELSE CountEntriesBreak(CountLibraries(acc, library_count, 1), d, i + 1)

RECURSIVE CountEntries(_, _, _)
\* lines 39-46: the loop over the process entries, from position i
CountEntries(acc, d, i) ==
    IF i > Len(d.keys) THEN acc
    ELSE LET library_count == d.val[d.keys[i]]
         IN  IF ~IsDict(library_count)
             THEN CountEntries(acc, d, i + 1)
             ELSE CountEntries(CountLibraries(acc, library_count, 1), d, i + 1)

count_processes_per_library(d) == CountEntries(EmptyDict, d, 1)

RECURSIVE SetLabels(_, _, _)
\* lines 79-81: g.labels(dir_path, basename).set(count) for each library in
\* the order of iteration; the gauge keeps one child per label tuple.
SetLabels(children, num, j) ==
    IF j > Len(num.keys) THEN children
    ELSE LET library == num.keys[j]
         IN  SetLabels(Put(children, OsPathSplit(library), num.val[library]), num, j + 1)

\* generate_latest(registry): one sample per child of the gauge
GenerateLatest(num) ==
    LET children == SetLabels(EmptyDict, num, 1)
    IN  {<<l[1], l[2], children.val[l]>> : l \in Keys(children)}

\* the file opened without a with block and closed only at end of file
WithExitLeak(files, path) == files

\* leaving the  with open(...)  block closes the file, also by an exception
WithExit(files, path) == files \ {path}

ExitMessage(path) == <<"Failed to open file: ", path>>
Traceback == <<"Traceback">>

----------------------------------------------------------------------------
(* main() *)

MainInit ==
    /\ pc = "scan"
    /\ idx = 1
    /\ nread = 0
    /\ openFiles = {}
    /\ processes_linking_deleted_libraries = EmptyDict
    /\ num_processes_per_library = EmptyDict
    /\ stdout = <<>>
    /\ stderr = <<>>
    /\ exit_status = -1
    /\ ev = "start"
    /\ nfields = 0
    /\ outcome = [p \in Paths |-> "pending"]
    /\ out2 = EmptyDict

\* line 64 always false: every OSError is swallowed
SysExitSwallows(path, how) ==
    /\ pc' = "scan"
    /\ idx' = idx + 1
    /\ outcome' = [outcome EXCEPT ![path] = how]
    /\ UNCHANGED <<exit_status, stderr, stdout>>

\* line 64 always true: every OSError is fatal
SwallowExits(path, how) ==
    /\ pc' = "aborted"
    /\ exit_status' = 1
    /\ stderr' = ExitMessage(path)
    /\ outcome' = [outcome EXCEPT ![path] = how]
    /\ UNCHANGED <<idx, stdout>>

\* line 65, reached from the except clause after the with block was left
SysExit(path, how) ==
    /\ pc' = "aborted"
    /\ exit_status' = 1
    /\ stderr' = ExitMessage(path)
    /\ outcome' = [outcome EXCEPT ![path] = how]
    /\ UNCHANGED <<idx, stdout>>

\* line 64 false: the error is swallowed and the for loop goes on
Swallow(path, how) ==
    /\ pc' = "scan"
    /\ idx' = idx + 1
    /\ outcome' = [outcome EXCEPT ![path] = how]
    /\ UNCHANGED <<exit_status, stderr, stdout>>

\* line 56, open succeeds
OpenOk ==
    /\ pc = "scan" /\ idx <= NumProcs
    /\ openFiles' = openFiles \cup {idx}
    /\ pc' = "reading"
    /\ nread' = 0
    /\ ev' = "open"
    /\ UNCHANGED <<idx, processes_linking_deleted_libraries, num_processes_per_library,
                   stdout, stderr, exit_status, nfields, outcome, out2>>

\* line 56 raises OSError with errno e; lines 63-65
OpenFail(e) ==
    /\ pc = "scan" /\ idx <= NumProcs
    /\ IF e # ENOENT THEN SysExit(idx, "open_fatal") ELSE Swallow(idx, "open_enoent")
    /\ ev' = IF e # ENOENT THEN "open_fatal" ELSE "open_enoent"
    /\ UNCHANGED <<nread, openFiles, processes_linking_deleted_libraries,
                   num_processes_per_library, nfields, out2>>

\* lines 57-62: the file yields line k, which decodes
ReadLine(k) ==
    /\ pc = "reading" /\ nread < MaxLines
    /\ Decodable(RawLines[k])
    /\ processes_linking_deleted_libraries' =
           process_maps_entry(idx, Split(RawLines[k]), processes_linking_deleted_libraries)
    /\ nread' = nread + 1
    /\ nfields' = Len(Split(RawLines[k]))
    /\ ev' = "line"
    /\ UNCHANGED <<pc, idx, openFiles, num_processes_per_library, stdout, stderr,
                   exit_status, outcome, out2>>

\* line 60: decode() raises UnicodeDecodeError, which line 63 does not catch
DecodeFail(k) ==
    /\ pc = "reading" /\ nread < MaxLines
    /\ ~Decodable(RawLines[k])
    /\ openFiles' = WithExit(openFiles, idx)
    /\ pc' = "crashed"
    /\ exit_status' = 1
    /\ stderr' = Traceback
    /\ outcome' = [outcome EXCEPT ![idx] = "decode"]
    /\ ev' = "decode"
    /\ UNCHANGED <<idx, nread, processes_linking_deleted_libraries,
                   num_processes_per_library, stdout, nfields, out2>>

\* line 57: reading the file raises OSError with errno e; lines 63-65
ReadFail(e) ==
    /\ pc = "reading"
    /\ openFiles' = WithExit(openFiles, idx)
    /\ IF e # ENOENT THEN SysExit(idx, "read_fatal") ELSE Swallow(idx, "read_enoent")
    /\ ev' = IF e # ENOENT THEN "read_fatal" ELSE "read_enoent"
    /\ UNCHANGED <<nread, processes_linking_deleted_libraries,
                   num_processes_per_library, nfields, out2>>

\* line 57: end of file; the with block is left and the for loop goes on
EndOfFile ==
    /\ pc = "reading"
    /\ openFiles' = WithExit(openFiles, idx)
    /\ pc' = "scan"
    /\ idx' = idx + 1
    /\ outcome' = [outcome EXCEPT ![idx] = "eof"]
    /\ ev' = "eof"
    /\ UNCHANGED <<nread, processes_linking_deleted_libraries, num_processes_per_library,
                   stdout, stderr, exit_status, nfields, out2>>

\* lines 67-83: every path was scanned; derive, render, print
Finish ==
    /\ pc = "scan" /\ idx > NumProcs
    /\ num_processes_per_library' =
           count_processes_per_library(processes_linking_deleted_libraries)
    /\ stdout' = <<GenerateLatest(num_processes_per_library')>>
    /\ pc' = "done"
    /\ exit_status' = 0
    /\ ev' = "print"
    /\ UNCHANGED <<idx, nread, openFiles, processes_linking_deleted_libraries, stderr,
                   nfields, outcome, out2>>

Next ==
    \/ OpenOk
    \/ \E e \in Errnos : OpenFail(e)
    \/ \E k \in LineIds : ReadLine(k)
    \/ \E k \in LineIds : DecodeFail(k)
    \/ \E e \in Errnos : ReadFail(e)
    \/ EndOfFile
    \/ Finish

Spec == MainInit /\ [][Next]_vars

----------------------------------------------------------------------------
(* count_processes_per_library on its own: applied twice to one aggregate,  *)
(* each time under an order of iteration of its own.                        *)

DeriveLibs == <<LibA, LibB>>
DerivePaths == 1..DeriveProcs

\* A value of the aggregate that is no dict (line 41)
NotADict == [tag |-> "other"]

\* The dict with the keys of order that are in S, in that order, and values c
DictOf(order, S, c) ==
    [tag |-> "dict", keys |-> SelectSeq(order, LAMBDA x : x \in S), val |-> c]

\* The counts inside an entry: one hit, or several (the function never reads them)
Multiplicities == {1, 2}

LibraryCounts ==
    UNION {{DictOf(DeriveLibs, S, c) : c \in [S -> Multiplicities]} :
           S \in SUBSET {DeriveLibs[i] : i \in 1..Len(DeriveLibs)}}

\* The values an entry of the aggregate can have
EntryValues == LibraryCounts \cup {NotADict}

Reversed(s) == [i \in 1..Len(s) |-> s[Len(s) + 1 - i]]

\* The same dict iterated in another order: its keys permuted by perm and,
\* when rev, the keys of every dict in it reversed.
Reordered(d, perm, rev) ==
    [tag  |-> "dict",
     keys |-> [i \in 1..Len(d.keys) |-> d.keys[perm[i]]],
     val  |-> [k \in Keys(d) |->
                  IF rev /\ IsDict(d.val[k])
                  THEN [d.val[k] EXCEPT !.keys = Reversed(d.val[k].keys)]
                  ELSE d.val[k]]]

DeriveInit ==
    /\ pc = "derive"
    /\ \E S \in SUBSET DerivePaths : \E c \in [S -> EntryValues] :
           processes_linking_deleted_libraries = DictOf([i \in DerivePaths |-> i], S, c)
    /\ num_processes_per_library = EmptyDict
    /\ out2 = EmptyDict
    /\ idx = 0
    /\ nread = 0
    /\ openFiles = {}
    /\ stdout = <<>>
    /\ stderr = <<>>
    /\ exit_status = -1
    /\ ev = "start"
    /\ nfields = 0
    /\ outcome = <<>>

DeriveFrame == UNCHANGED <<idx, nread, nfields, openFiles, processes_linking_deleted_libraries,
                           stdout, stderr, exit_status, outcome>>

DeriveOnce(perm, rev) ==
    /\ pc = "derive"
    /\ num_processes_per_library' =
           count_processes_per_library(
               Reordered(processes_linking_deleted_libraries, perm, rev))
    /\ pc' = "derived"
    /\ ev' = "derive1"
    /\ UNCHANGED out2
    /\ DeriveFrame

DeriveAgain(perm, rev) ==
    /\ pc = "derived"
    /\ out2' = count_processes_per_library(
                   Reordered(processes_linking_deleted_libraries, perm, rev))
    /\ pc' = "derived_twice"
    /\ ev' = "derive2"
    /\ UNCHANGED num_processes_per_library
    /\ DeriveFrame

Orders == Permutations(1..Len(processes_linking_deleted_libraries.keys))

DeriveNext ==
    \/ \E perm \in Orders, rev \in BOOLEAN : DeriveOnce(perm, rev)
    \/ \E perm \in Orders, rev \in BOOLEAN : DeriveAgain(perm, rev)

SpecDerive == DeriveInit /\ [][DeriveNext]_vars

----------------------------------------------------------------------------
(* Properties *)

\* The <<path, library, count>> triples of a per-process aggregate
Entries(d) ==
    UNION {{<<p, L, d.val[p].val[L]>> : L \in Keys(d.val[p])} : p \in Keys(d)}

\* The libraries that are a key of some entry of a per-process aggregate
LibraryKeys(d) == UNION {Keys(d.val[p]) : p \in Keys(d)}

CountOf(d, p, L) ==
    IF p \in Keys(d) /\ d.val[p].tag = "dict" /\ L \in Keys(d.val[p])
    THEN d.val[p].val[L] ELSE 0

\* field 6 contains "/lib/" and field 7 contains "(deleted)"
MarkedDeletedLibrary(parts) ==
    /\ Len(parts) = 7
    /\ \E i \in 1..(Len(parts[6]) - 4) : SubSeq(parts[6], i, i + 4) = <<"/", "l", "i", "b", "/">>
    /\ \E i \in 1..(Len(parts[7]) - 8) :
           SubSeq(parts[7], i, i + 8) = <<"(", "d", "e", "l", "e", "t", "e", "d", ")">>

\* C1: a line of exactly 7 fields is a hit iff field 6 contains "/lib/" and
\* field 7 contains "(deleted)"; a hit raises the count of [this path][this
\* library] by exactly 1 (from 0 when unseen) and changes no other entry; a
\* line that is no hit leaves the aggregate as it was.
C1_SevenFieldLineCounted ==
    [][\A k \in LineIds :
          (ReadLine(k) /\ Len(Split(RawLines[k])) = 7) =>
              LET parts == Split(RawLines[k])
                  old == processes_linking_deleted_libraries
                  new == processes_linking_deleted_libraries'
                  n == CountOf(old, idx, parts[6])
              IN  IF MarkedDeletedLibrary(parts)
                  THEN /\ Entries(new) =
                              (Entries(old) \ {<<idx, parts[6], n>>})
                                  \cup {<<idx, parts[6], n + 1>>}
                       /\ Keys(new) = Keys(old) \cup {idx}
                  ELSE new = old]_vars

\* a second hit on a library of the current process: its count went from 1 to 2
C1_Witness ==
    /\ ev = "line" /\ nfields = 7 /\ pc = "reading"
    /\ CountOf(processes_linking_deleted_libraries, idx, LibA) = 2

\* C2: a line whose field count is not 7 (an empty line included) leaves the
\* aggregate unchanged: no key is created, no count changes, no error is raised.
C2_OtherFieldCountIgnored ==
    [][\A k \in LineIds :
          (ReadLine(k) /\ Len(Split(RawLines[k])) # 7) =>
              /\ processes_linking_deleted_libraries' = processes_linking_deleted_libraries
              /\ pc' = "reading"
              /\ exit_status' = -1
              /\ stderr' = <<>>]_vars

\* a line of 8 fields was read while the aggregate already had an entry
C2_Witness ==
    /\ ev = "line" /\ nfields = 8
    /\ processes_linking_deleted_libraries # EmptyDict

\* C3: count_processes_per_library returns for every library the number of
\* entries that have it as a key, whatever the counts inside the entries, and
\* has no key for a library that is a key of no entry.
C3_CountsProcessesNotHits ==
    (pc = "derived") =>
        /\ Keys(num_processes_per_library) \subseteq {DeriveLibs[i] : i \in 1..Len(DeriveLibs)}
        /\ \A i \in 1..Len(DeriveLibs) :
              LET L == DeriveLibs[i]
                  d == processes_linking_deleted_libraries
                  n == Cardinality({p \in Keys(d) :
                                       d.val[p].tag = "dict" /\ L \in Keys(d.val[p])})
              IN  IF n = 0
                  THEN L \notin Keys(num_processes_per_library)
                  ELSE /\ L \in Keys(num_processes_per_library)
                       /\ num_processes_per_library.val[L] = n

\* LibA is hit twice by process 1, once by process 2 and not by process 3: 2
C3_Witness ==
    /\ pc = "derived"
    /\ Keys(processes_linking_deleted_libraries) = {1, 2, 3}
    /\ CountOf(processes_linking_deleted_libraries, 1, LibA) = 2
    /\ CountOf(processes_linking_deleted_libraries, 2, LibA) = 1
    /\ processes_linking_deleted_libraries.val[3].tag = "dict"
    /\ CountOf(processes_linking_deleted_libraries, 3, LibA) = 0
    /\ num_processes_per_library.val[LibA] = 2

\* C4: when open fails with an errno other than ENOENT the run is aborted:
\* the exit status is non-zero, the message names the path, no later path is
\* opened and nothing is ever printed, the entries already counted included.
C4_OpenFailureAborts ==
    \A p \in DOMAIN outcome :
        (outcome[p] = "open_fatal") =>
            /\ pc = "aborted"
            /\ exit_status \notin {-1, 0}
            /\ stderr = <<"Failed to open file: ", p>>
            /\ stdout = <<>>
            /\ openFiles = {}
            /\ \A q \in DOMAIN outcome : q > p => outcome[q] = "pending"

\* the second open fails after the first process was counted
C4_Witness ==
    /\ NumProcs >= 2
    /\ outcome[1] = "eof" /\ outcome[2] = "open_fatal"
    /\ processes_linking_deleted_libraries # EmptyDict

\* C5: when open fails with ENOENT the error is swallowed: the loop goes on to
\* the next path (or to the derivation after the last), the process has no
\* entry, and a run that completes exits with 0 and prints the document of the
\* counts of the other processes.
C5_VanishedAtOpenSkipped ==
    \A p \in DOMAIN outcome :
        (outcome[p] = "open_enoent") =>
            /\ p \notin Keys(processes_linking_deleted_libraries)
            /\ (ev = "open_enoent" /\ \A q \in DOMAIN outcome : q > p => outcome[q] = "pending") =>
                   /\ pc = "scan" /\ idx = p + 1 /\ exit_status = -1 /\ stderr = <<>>
                   /\ IF idx <= NumProcs THEN ENABLED OpenOk ELSE ENABLED Finish
            /\ (pc = "done") =>
                   /\ exit_status = 0
                   /\ Len(stdout) = 1
                   /\ \A L \in Keys(num_processes_per_library) :
                          num_processes_per_library.val[L] =
                              Cardinality({q \in Paths \ {p} :
                                  CountOf(processes_linking_deleted_libraries, q, L) > 0})

\* the first process vanished, the second was counted and the document printed
C5_Witness ==
    /\ NumProcs >= 2
    /\ pc = "done"
    /\ outcome[1] = "open_enoent" /\ outcome[2] = "eof"
    /\ LibA \in Keys(num_processes_per_library)

\* C6: a library becomes a key of the per-process aggregate only by reading a
\* line of 7 fields whose path is that library, contains "/lib/" and is
\* annotated "(deleted)"; the per-library aggregate has no other keys; both
\* start empty, so a library that is only mapped is a key of neither.
C6_OnlyDeletedLibrariesAreKeys ==
    [][/\ \A L \in LibraryKeys(processes_linking_deleted_libraries')
                     \ LibraryKeys(processes_linking_deleted_libraries) :
             \E k \in LineIds :
                 /\ ReadLine(k)
                 /\ MarkedDeletedLibrary(Split(RawLines[k]))
                 /\ Split(RawLines[k])[6] = L
       /\ Keys(num_processes_per_library')
              \subseteq LibraryKeys(processes_linking_deleted_libraries')
       /\ LibB \notin LibraryKeys(processes_linking_deleted_libraries')
       /\ BinA \notin LibraryKeys(processes_linking_deleted_libraries')]_vars

\* LibB was read, mapped but not deleted, and the run ended with LibA alone
C6_Witness ==
    /\ pc = "done"
    /\ ev = "print"
    /\ Keys(num_processes_per_library) = {LibA}
    /\ nfields = 7
    /\ CountOf(processes_linking_deleted_libraries, NumProcs, LibA) = 0

\* C7: on normal completion (every source read to its end) the document has, for every library of the
\* per-library aggregate, a sample labelled with the directory and the base
\* name of the library whose value is the library's process count.
C7_EveryLibraryHasItsSample ==
    (pc = "done" /\ \A p \in DOMAIN outcome : outcome[p] = "eof") =>
        \A L \in Keys(num_processes_per_library) :
            <<OsPathSplit(L)[1], OsPathSplit(L)[2], num_processes_per_library.val[L]>>
                \in stdout[1]

\* C8: a process whose source raises ENOENT while it is read has no entry in
\* the per-process aggregate.
C8_VanishedWhileReadContributesNothing ==
    \A p \in DOMAIN outcome :
        (outcome[p] = "read_enoent") =>
            p \notin Keys(processes_linking_deleted_libraries)

\* C9: at most one source is open, the one being read; it is closed when its
\* scan ends, however it ends, before the next is opened.
C9_OneSourceOpen ==
    /\ Cardinality(openFiles) <= 1
    /\ (pc = "reading") => openFiles = {idx}
    /\ (pc # "reading") => openFiles = {}

\* the second source is being read after the first ended by a swallowed error
C9_Witness ==
    /\ NumProcs >= 2
    /\ outcome[1] = "read_enoent"
    /\ pc = "reading" /\ idx = 2 /\ openFiles = {2}

\* C10: count_processes_per_library leaves its input unchanged, and two
\* applications to the same aggregate, each under any order of iteration of
\* the entries and of the libraries inside them, return equal dicts.
C10_DerivationIsAFunctionOfContents ==
    [][/\ processes_linking_deleted_libraries' = processes_linking_deleted_libraries
       /\ (pc' = "derived_twice") =>
              /\ Keys(num_processes_per_library') = Keys(out2')
              /\ \A L \in Keys(out2') :
                     num_processes_per_library'.val[L] = out2'.val[L]]_vars

\* two applications that met the libraries in different orders
C10_Witness ==
    /\ pc = "derived_twice"
    /\ Len(out2.keys) = 2
    /\ out2.keys # num_processes_per_library.keys
    /\ \E p \in Keys(processes_linking_deleted_libraries) :
           processes_linking_deleted_libraries.val[p].tag = "other"

====
